---- MODULE Spec2Model ----
(***************************************************************************)
(* A model of the harvesting programs of the repository:                   *)
(*                                                                         *)
(*   selenium_scraper.py   multi_threaded_scraper: a pool of num_threads  *)
(*                         worker tasks that pull URLs from one shared     *)
(*                         queue.Queue, scrape each with their own Worker  *)
(*                         (a browser session) and return a dict that the  *)
(*                         main thread merges, stores and returns.         *)
(*   trendyol_sitemap.py   multi_runner: get_links, one helper task per    *)
(*                         link on a thread pool, then the results are     *)
(*                         collected in submission order, written as JSON  *)
(*                         and aggregated into a CSV.                      *)
(*                                                                         *)
(*   extract_urls          selenium_scraper.py's discovery: the product    *)
(*                         sitemap is fetched and its links are queued up  *)
(*                         to the cap of 1000.                             *)
(*   required_product_data trendyol_sitemap.py's normalisation of one raw  *)
(*                         record, applied to every record of RawRecords   *)
(*                         (NormalizeSpec).                                *)
(*                                                                         *)
(* One run executes one of the programs (variable program).  The           *)
(* environment is what the code cannot control: the page a browser loads,  *)
(* the HTTP answer of the content API, the sitemap answers, and whether    *)
(* driver.quit() succeeds.  The file system is taken to be writable and    *)
(* webdriver.Chrome() to start.                                            *)
(***************************************************************************)
EXTENDS Integers, Sequences, FiniteSets, TLC

\* ------------------------------------------------------------------ bounds
\* longest initial url_queue handed to multi_threaded_scraper
MaxLinks == 2
\* num_threads, the number of Worker handles and worker tasks (default 30)
NumThreads == 2
\* number of sitemap documents get_links fetches (range(1, 7) in the source)
NumSitemaps == 2
\* longest attributes list of a raw record handed to required_product_data
MaxAttributes == 2

\* ------------------------------------------------------------ Python values
\* Python's None where the other values are strings
None == "None"
\* get_product_id's None: a match of p-(\d+) always has a digit, so the empty
\* digit sequence is free to stand for "no identifier"
NoId == <<>>
\* the empty dict {}
EmptyDict == [k \in {} |-> None]

\* d[k] = v on a dict
dict_set(d, k, v) == [x \in (DOMAIN d) \cup {k} |-> IF x = k THEN v ELSE d[x]]

\* dict.update dropping what was there before: a plausible merge bug
dict_update_overwrite(a, b) == b

\* a.update(b): b's entries win
dict_update(a, b) == [x \in (DOMAIN a) \cup (DOMAIN b) |-> IF x \in DOMAIN b THEN b[x] ELSE a[x]]

Range(s) == {s[i] : i \in DOMAIN s}

\* all sequences over S of length at most n
SeqsUpTo(S, n) == UNION {[1..k -> S] : k \in 0..n}

\* --------------------------------------------------------- selenium_scraper
\* the URLs a queue may hold (the same URL may be queued twice)
URLS == {"u1", "u2"}
Threads == 1..NumThreads

\* What driver.get(url) leaves in the browser:
\*   "landing"  the site's generic page (title 'trendyol.com')
\*   "product"  a product page on which every element is found
\*   "error"    driver.get raised (timeout, dead session, ...)
Pages == {"landing", "product", "error"}

\* Worker.scrape's return value for a page on which driver.get succeeded
product_details(url, page) ==
    IF page = "landing"
    THEN [link |-> url, brand_and_title |-> None, price |-> None,
          attributes |-> None, description |-> None, images |-> None]
    ELSE [link |-> url, brand_and_title |-> "brand title", price |-> "price",
          attributes |-> "{attrs}", description |-> "description",
          images |-> "[images]"]

\* a scrape without the title test of line 223: the five helpers run on the
\* landing page, find nothing and return None, None, {}, None and []
scrape_without_title_check(url, page) ==
    [raised |-> page = "error",
     value |-> IF page = "landing"
               THEN [link |-> url, brand_and_title |-> None, price |-> None,
                     attributes |-> "{}", description |-> None, images |-> "[]"]
               ELSE product_details(url, page),
     lookups |-> IF page = "error" THEN 0 ELSE 5]

\* lines 213-234: Worker.scrape on a page: raised when driver.get raised, else
\* the record returned; lookups counts the get_* helper calls of lines 227-231
scrape(url, page) ==
    [raised |-> page = "error",
     value |-> product_details(url, page),
     lookups |-> IF page = "product" THEN 5 ELSE 0]

\* every task working with the first handle: a plausible bug
handle_of_shared(w) == 1

\* line 177: worker_task is submitted once per element of workers, so task w
\* works with the handle workers[w]
handle_of(w) == w

\* line 48: the item cap of extract_urls
ItemCap == 1000
\* how many <url> children the product sitemap may have: none, a few, and
\* sizes around the cap
PageSizes == {0, 1, 2, ItemCap - 1, ItemCap, ItemCap + 1, ItemCap + 2}
\* What extract_urls' one sitemap URL (range(1, 2), line 38) answers: a status
\* and a document; a link is written as its position in the document.
IndexPages ==
    {[status |-> 404, wellformed |-> TRUE, locs |-> <<>>],
     [status |-> 200, wellformed |-> FALSE, locs |-> <<>>]}
    \cup {[status |-> 200, wellformed |-> TRUE, locs |-> [k \in 1..n |-> k]] : n \in PageSizes}

\* a cap test that lets one link too many through: a plausible bug
cap_reached_late(n) == n > ItemCap

\* line 48: num_of_links >= 1000
cap_reached(n) == n >= ItemCap

\* get_nowait that leaves the item in the queue: a plausible dequeue bug
get_nowait_peek(q) == [item |-> Head(q), rest |-> q]

\* links_queue.get_nowait() on a non-empty queue: the head is removed and returned
get_nowait(q) == [item |-> Head(q), rest |-> Tail(q)]

\* an emptiness test that is off by one: a plausible bug
empty_off_by_one(q) == Len(q) <= 1

\* line 160: links_queue.empty()
empty(q) == Len(q) = 0

\* a worker that tries get_nowait again after queue.Empty: a plausible bug
after_queue_empty_retry == "get"

\* lines 163-164: where worker_task continues after queue.Empty: break leaves
\* the loop and line 170 returns results
after_queue_empty == "done"

\* an except clause that leaves the loop: a plausible bug
after_exception_break == "done"

\* where worker_task continues after its except clause printed the failure:
\* at the loop's condition
after_exception == "check"

\* a worker that records the failed item too (what the code does not do)
record_failure_sentinel(res, url) == dict_set(res, url, [link |-> url, brand_and_title |-> "failed",
          price |-> None, attributes |-> None, description |-> None, images |-> None])

\* the worker's results after scrape(url) raised: the except clause only prints
record_failure(res, url) == res

\* storing whatever the aggregate holds: a plausible bug
store_condition_always(agg) == TRUE

\* line 191: `if not all_results` is the log branch, else the file is written
store_condition(agg) == DOMAIN agg # {}


\* --------------------------------------------------------- trendyol_sitemap
\* Links are sequences of characters, so that product_pattern can be matched.
LinkProduct == <<"/", "x", "/", "p", "-", "1", "2">>
LinkCategory == <<"/", "x", "/", "c">>
\* 'https://site/x/p-123456'
LinkExample == <<"h", "t", "t", "p", "s", ":", "/", "/", "s", "i", "t", "e", "/", "x", "/",
                 "p", "-", "1", "2", "3", "4", "5", "6">>
\* '/p-/p-7p-8': a 'p-' without digits, then two identifiers
LinkLate == <<"/", "p", "-", "/", "p", "-", "7", "p", "-", "8">>
LINKS == {LinkProduct, LinkCategory, LinkExample, LinkLate}

\* One sitemap answer: requests.get's status and the document's <url><loc> texts;
\* wellformed is FALSE for a body ET.fromstring rejects.
SitemapDocuments == {<<>>} \cup {<<l>> : l \in LINKS}
SitemapAnswers ==
    {[status |-> 404, wellformed |-> TRUE, locs |-> <<>>],
     [status |-> 200, wellformed |-> FALSE, locs |-> <<>>]}
    \cup {[status |-> 200, wellformed |-> TRUE, locs |-> d] : d \in SitemapDocuments}

\* One answer of the content API: requests.get raised (error), or a status and
\* a body: "" (no bytes), "null", "noname" (a JSON object without "name"),
\* "product" (a JSON object with the product's fields).
Bodies == {"", "null", "noname", "product"}
HttpAnswers ==
    {[error |-> TRUE, status |-> 0, body |-> ""],
     [error |-> FALSE, status |-> 404, body |-> ""]}
    \cup {[error |-> FALSE, status |-> 200, body |-> b] : b \in Bodies}

\* response.json(): raises on a body that is no JSON document
json_raises(body) == body = ""
\* response.json() of a JSON document: null is None, an object is itself
json(body) == IF body = "null" THEN None ELSE body
\* Python truthiness of a decoded body
truthy(v) == v # None
\* "name" in v, for a decoded body
has_name(v) == v = "product"

IsDigit(c) == c \in {"0", "1", "2", "3", "4", "5", "6", "7", "8", "9"}

\* the longest run of digits of s that starts at position j (\d+ is greedy)
RECURSIVE DigitsFrom(_, _)
DigitsFrom(s, j) ==
    IF j <= Len(s) /\ IsDigit(s[j]) THEN <<s[j]>> \o DigitsFrom(s, j + 1) ELSE <<>>

\* product_pattern = re.compile(r'p-(\d+)') matches at position i
MatchesAt(s, i) ==
    /\ i + 2 <= Len(s)
    /\ s[i] = "p"
    /\ s[i + 1] = "-"
    /\ IsDigit(s[i + 2])

\* group(1) of the rightmost match: a plausible bug (findall()[-1])
get_product_id_last(link) ==
    LET hits == {i \in 1..Len(link) : MatchesAt(link, i)}
    IN  IF hits = {} THEN NoId
        ELSE LET last == CHOOSE i \in hits : \A j \in hits : i >= j
             IN  DigitsFrom(link, last + 2)

\* lines 39-50: product_pattern.search(link), group(1) of the leftmost match
get_product_id(link) ==
    LET hits == {i \in 1..Len(link) : MatchesAt(link, i)}
    IN  IF hits = {} THEN NoId
        ELSE LET first == CHOOSE i \in hits : \A j \in hits : i <= j
             IN  DigitsFrom(link, first + 2)

\* lines 53-74: the GET and its classification; raised is TRUE when the call
\* ends with an exception (requests.get, response.json() or ["name"]); gets
\* counts the requests.get calls, of which line 61 is the only one
grab_product_data(product_id, http) ==
    IF http.error THEN [raised |-> TRUE, value |-> None, gets |-> 1]
    ELSE IF http.status = 200
    THEN IF json_raises(http.body) THEN [raised |-> TRUE, value |-> None, gets |-> 1]
         ELSE IF truthy(json(http.body)) /\ ~has_name(json(http.body))
         THEN [raised |-> TRUE, value |-> None, gets |-> 1]
         ELSE [raised |-> FALSE, value |-> json(http.body), gets |-> 1]
    ELSE [raised |-> FALSE, value |-> None, gets |-> 1]

\* lines 77-87
get_product_data_from_link(link, http) ==
    IF get_product_id(link) # NoId
    THEN grab_product_data(get_product_id(link), http)
    ELSE [raised |-> FALSE, value |-> None, gets |-> 0]

\* lines 181-186: multi_runner.helper; nothing in it catches
helper(link, http) ==
    [raised |-> get_product_data_from_link(link, http).raised,
     value |-> [link |-> link, product_id |-> get_product_id(link),
                response |-> get_product_data_from_link(link, http).value],
     gets |-> get_product_data_from_link(link, http).gets]

\* lines 19-36: the links of the sitemaps that answered 200, in sitemap order;
\* ET.fromstring raises on a malformed document and nothing catches it
RECURSIVE links_of(_, _)
links_of(answers, n) ==
    IF n = 0 THEN <<>>
    ELSE links_of(answers, n - 1)
         \o (IF answers[n].status = 200 THEN answers[n].locs ELSE <<>>)

get_links(answers) ==
    [raised |-> \E n \in DOMAIN answers : answers[n].status = 200 /\ ~answers[n].wellformed,
     value |-> links_of(answers, Len(answers))]

\* ------------------------------------------------- required_product_data
\* A raw record (response_dict) is a dict from the keys the backend sent to
\* their values; scalars are strings, True and False are "True" and "False".
\* A key that may be missing is drawn as an option: <<>> (key absent) or <<v>>.
Option(S) == {<<>>} \cup {<<v>> : v \in S}

\* 'brand': null (on which .get raises AttributeError) or an object
BrandValues == {[t |-> "null"], [t |-> "dict", description |-> "text", name |-> "acme"]}
\* allVariants[0]: with size, with value instead of size, without barcode
Variants == {[barcode |-> 7, price |-> "9.99", size |-> "M"],
             [barcode |-> 7, price |-> "9.99", value |-> "L"],
             [price |-> "9.99"]}
\* 'allVariants': an empty list or a list of one variant
VariantLists == {<<>>} \cup {<<v>> : v \in Variants}
\* one entry of 'attributes'; the last one has no 'value'
AttributeKeys == {"description", "color", "price", "url"}
AttributeEntries == {[key |-> k, value |-> "attr"] : k \in AttributeKeys} \cup {[key |-> "color"]}
AttributeLists == SeqsUpTo(AttributeEntries, MaxAttributes)

\* the dict with exactly the keys whose option is <<v>>
RawRecord(brand, images, name, inStock, allVariants, attributes) ==
    LET opts == [brand |-> brand, images |-> images, name |-> name, inStock |-> inStock,
                 allVariants |-> allVariants, attributes |-> attributes]
    IN  [k \in {x \in DOMAIN opts : opts[x] # <<>>} |-> opts[k][1]]

RawRecords ==
    {RawRecord(b, i, n, s, v, a) :
        b \in Option(BrandValues), i \in Option({"[images]"}), n \in Option({"shoe"}),
        s \in Option({"True", "False"}), v \in Option(VariantLists), a \in Option(AttributeLists)}

\* str() of a one-digit int
str(n) == <<"0", "1", "2", "3", "4", "5", "6", "7", "8", "9">>[n + 1]
\* Python truthiness of a scalar
bool(v) == v \notin {None, "False", ""}

\* the state of the try block: the dict built so far and whether a statement raised
Ok(data) == [raised |-> FALSE, data |-> data]
Raise(data) == [raised |-> TRUE, data |-> data]

\* response_dict.get('brand', {}).get(field): AttributeError on a null brand
brand_get(response_dict, field) ==
    IF "brand" \notin DOMAIN response_dict THEN [raised |-> FALSE, value |-> None]
    ELSE IF response_dict["brand"].t # "dict" THEN [raised |-> TRUE, value |-> None]
    ELSE [raised |-> FALSE, value |-> response_dict["brand"][field]]

\* lines 98 and 101: required_data[key] = response_dict.get('brand', {}).get(field)
set_from_brand(st, response_dict, key, field) ==
    IF st.raised THEN st
    ELSE IF brand_get(response_dict, field).raised THEN Raise(st.data)
    ELSE Ok(dict_set(st.data, key, brand_get(response_dict, field).value))

\* lines 99 and 100: required_data[key] = response_dict[key], KeyError if absent
set_from_key(st, response_dict, key) ==
    IF st.raised THEN st
    ELSE IF key \notin DOMAIN response_dict THEN Raise(st.data)
    ELSE Ok(dict_set(st.data, key, response_dict[key]))

\* line 102: required_data['in_stock'] = response_dict.get('inStock')
set_in_stock(st, response_dict) ==
    IF st.raised THEN st
    ELSE Ok(dict_set(st.data, "in_stock",
                     IF "inStock" \in DOMAIN response_dict THEN response_dict["inStock"] ELSE None))

\* line 103: required_data['in_stock'] and response_dict.get('allVariants')
stock_gate(in_stock, response_dict) ==
    /\ bool(in_stock)
    /\ "allVariants" \in DOMAIN response_dict
    /\ response_dict["allVariants"] # <<>>

\* lines 106-107: variant.get('size') or variant.get('value')
size_of(variant) ==
    IF "size" \in DOMAIN variant /\ bool(variant.size) THEN variant.size
    ELSE IF "value" \in DOMAIN variant THEN variant.value ELSE None

\* lines 103-107: barcode, price and size of the first variant
set_stock_fields(st, response_dict) ==
    IF st.raised THEN st
    ELSE IF ~stock_gate(st.data["in_stock"], response_dict) THEN st
    ELSE LET variant == response_dict["allVariants"][1]
         IN  IF "barcode" \notin DOMAIN variant THEN Raise(st.data)
             ELSE IF "price" \notin DOMAIN variant
             THEN Raise(dict_set(st.data, "barcode", str(variant.barcode)))
             ELSE Ok(dict_set(dict_set(dict_set(st.data, "barcode", str(variant.barcode)),
                                       "price", variant.price),
                              "size", size_of(variant)))

\* reading the attributes by subscript: a plausible bug
attributes_of_subscript(response_dict) ==
    IF "attributes" \in DOMAIN response_dict
    THEN [raised |-> FALSE, value |-> response_dict["attributes"]]
    ELSE [raised |-> TRUE, value |-> <<>>]

\* line 108: response_dict.get('attributes', [])
attributes_of(response_dict) ==
    IF "attributes" \in DOMAIN response_dict
    THEN [raised |-> FALSE, value |-> response_dict["attributes"]]
    ELSE [raised |-> FALSE, value |-> <<>>]

\* lines 108-111: the loop over the attributes, from entry n on; an entry
\* without 'value' raises KeyError, what earlier entries set stays
RECURSIVE merge_attributes(_, _, _)
merge_attributes(st, attributes, n) ==
    IF st.raised \/ n > Len(attributes) THEN st
    ELSE IF "key" \notin DOMAIN attributes[n] THEN Raise(st.data)
    ELSE IF attributes[n].key = "description" THEN merge_attributes(st, attributes, n + 1)
    ELSE IF "value" \notin DOMAIN attributes[n] THEN Raise(st.data)
    ELSE merge_attributes(Ok(dict_set(st.data, attributes[n].key, attributes[n].value)),
                          attributes, n + 1)

\* lines 108: the attributes are read, then merged
set_attributes(st, response_dict) ==
    IF st.raised THEN st
    ELSE IF attributes_of(response_dict).raised THEN Raise(st.data)
    ELSE merge_attributes(st, attributes_of(response_dict).value, 1)

\* lines 90-116: the statements of the one try block in order; the first that
\* raises ends the block, the except clause logs, required_data is returned
\* as far as it was built.  error is TRUE when the except clause ran.
required_product_data(response_dict, link) ==
    LET s0 == Ok(dict_set(EmptyDict, "url", link))
        s1 == set_from_brand(s0, response_dict, "description", "description")
        s2 == set_from_key(s1, response_dict, "images")
        s3 == set_from_key(s2, response_dict, "name")
        s4 == set_from_brand(s3, response_dict, "brand_name", "name")
        s5 == set_in_stock(s4, response_dict)
        s6 == set_stock_fields(s5, response_dict)
        s7 == set_attributes(s6, response_dict)
    IN  [data |-> s7.data, error |-> s7.raised]

\* the link required_product_data is handed in the normalisation runs
NormLink == "https://site/x/p-12"

\* lines 119-137: one row per entry whose response is truthy
RECURSIVE aggregate_product_data(_)
aggregate_product_data(response_dicts_list) ==
    IF response_dicts_list = <<>> THEN <<>>
    ELSE (IF truthy(Head(response_dicts_list).response)
          THEN <<[url |-> Head(response_dicts_list).link]>> ELSE <<>>)
         \o aggregate_product_data(Tail(response_dicts_list))

\* a future that has not run yet
PendingFuture == [state |-> "pending",
                  value |-> [link |-> <<>>, product_id |-> NoId, response |-> None]]

VARIABLES
    program,          \* which script runs: "selenium_scraper" or "trendyol_sitemap"
    input,            \* the URLs initially in url_queue, in queue order
    url_queue,        \* the shared queue: item numbers (positions of input)
    num_of_links,     \* url_queue.qsize() taken at line 156
    pc,               \* where multi_threaded_scraper's main thread is
    wpc,              \* where each worker_task is
    cur,              \* the item each worker_task holds (0: none)
    results,          \* each worker_task's local results dict
    merged,           \* the futures as_completed has yielded
    all_results,      \* the aggregate
    file,             \* content of required_product_data_turkish.json
    writes,           \* how often that file was written
    log,              \* the messages logged by the main thread
    closed,           \* the Worker handles close() was called on
    retval,           \* what multi_threaded_scraper returned
    exc,              \* the exception that left multi_threaded_scraper
    outcome,          \* per item: the page its scrape met ("none": not scraped)
    takes,            \* per item: how often it was dequeued
    lookups,          \* per item: the field lookups its scrape performed
    users,            \* per Worker handle: the tasks that called scrape on it
    raced,            \* per task: <<results>> as they were when get_nowait raised
                      \* queue.Empty after empty() had returned False, else <<>>
    pendingAtFailure  \* the items that were in the queue when some scrape raised

VARIABLES
    sitemaps,         \* the answers of the sitemap URLs, in the order fetched
    links,            \* get_links' result
    threads,          \* the futures of the helper tasks, in submission order
    requests,         \* per link: the answers to the GETs its helper task issued
    rpc,              \* where multi_runner is
    product_data,     \* the collected data_dicts
    json_file,        \* content of trendyol_products_de.json
    json_writes,      \* how often it was written
    csv_file,         \* rows of trendyol_products_required_data_de.csv
    csv_writes,       \* how often it was written
    rret,             \* what multi_runner returned
    rexc              \* the exception that left multi_runner

VARIABLES
    response_dict,    \* the raw record handed to required_product_data
    required_data,    \* the dict it returned
    norm_log,         \* what it logged
    npc               \* "call" before the call, "returned" after it

normalize_vars == <<response_dict, required_data, norm_log, npc>>

VARIABLES
    eu_page,          \* what the product sitemap answers to extract_urls
    eu_links,         \* extract_urls' queue links, in put order
    eu_num_of_links,  \* its counter num_of_links
    eu_child,         \* the position of the next child of root
    eu_pc,            \* "start", "children", "returned" or "raised"
    eu_exc            \* the exception that left extract_urls

discovery_vars == <<eu_page, eu_links, eu_num_of_links, eu_child, eu_pc, eu_exc>>

harness_vars == <<normalize_vars, discovery_vars>>

runner_vars == <<sitemaps, links, threads, requests, rpc, product_data, json_file, json_writes,
                 csv_file, csv_writes, rret, rexc>>

scraper_vars == <<input, url_queue, num_of_links, pc, wpc, cur, results, merged,
                  all_results, file, writes, log, closed, retval, exc, outcome,
                  takes, lookups, users, raced, pendingAtFailure>>

vars == <<program, scraper_vars, runner_vars, harness_vars>>

Items == 1..Len(input)
url_of(i) == input[i]

\* the scraper's state when multi_threaded_scraper(url_queue) is entered with the
\* URLs of q queued
ScraperAt(q) ==
    /\ input = q
    /\ url_queue = [i \in 1..Len(input) |-> i]
    /\ num_of_links = 0
    /\ pc = "start"
    /\ wpc = [w \in Threads |-> "idle"]
    /\ cur = [w \in Threads |-> 0]
    /\ results = [w \in Threads |-> EmptyDict]
    /\ merged = {}
    /\ all_results = EmptyDict
    /\ file = EmptyDict
    /\ writes = 0
    /\ log = {}
    /\ closed = {}
    /\ retval = EmptyDict
    /\ exc = "none"
    /\ outcome = [i \in 1..Len(input) |-> "none"]
    /\ takes = [i \in 1..Len(input) |-> 0]
    /\ lookups = [i \in 1..Len(input) |-> 0]
    /\ users = [h \in Threads |-> {}]
    /\ raced = [w \in Threads |-> <<>>]
    /\ pendingAtFailure = {}

\* lines 155-178: qsize, the Worker handles, one worker_task submitted per handle
Start ==
    /\ program = "selenium_scraper"
    /\ pc = "start"
    /\ num_of_links' = Len(url_queue)
    /\ wpc' = [w \in Threads |-> "check"]
    /\ pc' = "as_completed"
    /\ UNCHANGED <<program, harness_vars, runner_vars, lookups, users, raced,
                   input, url_queue, cur, results, merged, all_results, file,
                   writes, log, closed, retval, exc, outcome, takes, pendingAtFailure>>

\* line 160: while not links_queue.empty(); line 170 when it is empty
WorkerCheck(w) ==
    /\ wpc[w] = "check"
    /\ wpc' = [wpc EXCEPT ![w] = IF empty(url_queue) THEN "done" ELSE "get"]
    /\ UNCHANGED <<program, harness_vars, runner_vars, lookups, users, raced,
                   input, url_queue, num_of_links, pc, cur, results, merged,
                   all_results, file, writes, log, closed, retval, exc, outcome, takes,
                   pendingAtFailure>>

\* lines 161-164: get_nowait, or queue.Empty and break
WorkerGet(w) ==
    /\ wpc[w] = "get"
    /\ IF url_queue = <<>>
       THEN /\ wpc' = [wpc EXCEPT ![w] = after_queue_empty]
            /\ raced' = [raced EXCEPT ![w] = <<results[w]>>]
            /\ UNCHANGED <<url_queue, cur, takes>>
       ELSE /\ cur' = [cur EXCEPT ![w] = get_nowait(url_queue).item]
            /\ url_queue' = get_nowait(url_queue).rest
            /\ takes' = [takes EXCEPT ![Head(url_queue)] = @ + 1]
            /\ wpc' = [wpc EXCEPT ![w] = "scrape"]
            /\ UNCHANGED raced
    /\ UNCHANGED <<program, harness_vars, runner_vars, lookups, users,
                   input, num_of_links, pc, results, merged, all_results, file,
                   writes, log, closed, retval, exc, outcome, pendingAtFailure>>

\* lines 165-169: worker.scrape(url), its result recorded or its exception printed
WorkerScrape(w) ==
    /\ wpc[w] = "scrape"
    /\ users' = [users EXCEPT ![handle_of(w)] = @ \cup {w}]
    /\ \E page \in Pages :
        /\ outcome' = [outcome EXCEPT ![cur[w]] = page]
        /\ lookups' = [lookups EXCEPT ![cur[w]] = scrape(url_of(cur[w]), page).lookups]
        /\ IF scrape(url_of(cur[w]), page).raised
           THEN /\ results' = [results EXCEPT ![w] = record_failure(@, url_of(cur[w]))]
                /\ wpc' = [wpc EXCEPT ![w] = after_exception]
                /\ pendingAtFailure' = pendingAtFailure \cup Range(url_queue)
           ELSE /\ results' = [results EXCEPT ![w] =
                                 dict_set(@, url_of(cur[w]), scrape(url_of(cur[w]), page).value)]
                /\ wpc' = [wpc EXCEPT ![w] = "check"]
                /\ UNCHANGED pendingAtFailure
    /\ cur' = [cur EXCEPT ![w] = 0]
    /\ UNCHANGED <<program, harness_vars, runner_vars, raced,
                   input, url_queue, num_of_links, pc, merged, all_results, file,
                   writes, log, closed, retval, exc, takes>>

\* lines 180-186: as_completed yields a finished future, its dict is merged
Collect(w) ==
    /\ pc = "as_completed"
    /\ wpc[w] = "done"
    /\ w \notin merged
    /\ merged' = merged \cup {w}
    /\ all_results' = dict_update(all_results, results[w])
    /\ UNCHANGED <<program, harness_vars, runner_vars, lookups, users, raced,
                   input, url_queue, num_of_links, pc, wpc, cur, results, file,
                   writes, log, closed, retval, exc, outcome, takes, pendingAtFailure>>

\* lines 189-198: the finally block's first part, after as_completed is exhausted
Store ==
    /\ pc = "as_completed"
    /\ merged = Threads
    /\ IF store_condition(all_results)
       THEN /\ file' = all_results
            /\ writes' = writes + 1
            /\ log' = log \cup {"Required data stored"}
       ELSE /\ log' = log \cup {"No data scraped"}
            /\ UNCHANGED <<file, writes>>
    /\ pc' = "close"
    /\ UNCHANGED <<program, harness_vars, runner_vars, lookups, users, raced,
                   input, url_queue, num_of_links, wpc, cur, results, merged,
                   all_results, closed, retval, exc, outcome, takes, pendingAtFailure>>

\* lines 200-201: worker.close() on the next handle; driver.quit() may raise,
\* which leaves the for loop, the finally block and the function
Close ==
    /\ pc = "close"
    /\ \E k \in Threads :
        /\ k \notin closed
        /\ \A j \in Threads : j < k => j \in closed
        /\ closed' = closed \cup {k}
        /\ \E quit_ok \in BOOLEAN :
            IF quit_ok
            THEN /\ pc' = IF k = NumThreads THEN "telemetry" ELSE "close"
                 /\ exc' = exc
            ELSE /\ pc' = "raised"
                 /\ exc' = "WebDriverException"
    /\ UNCHANGED <<program, harness_vars, runner_vars, lookups, users, raced,
                   input, url_queue, num_of_links, wpc, cur, results, merged,
                   all_results, file, writes, log, retval, outcome, takes, pendingAtFailure>>

\* lines 202-204: elapsed / num_of_links, then return all_results
Telemetry ==
    /\ pc = "telemetry"
    /\ IF num_of_links = 0
       THEN /\ pc' = "raised"
            /\ exc' = "ZeroDivisionError"
            /\ UNCHANGED retval
       ELSE /\ pc' = "returned"
            /\ retval' = all_results
            /\ UNCHANGED exc
    /\ UNCHANGED <<program, harness_vars, runner_vars, lookups, users, raced,
                   input, url_queue, num_of_links, wpc, cur, results, merged,
                   all_results, file, writes, log, closed, outcome, takes, pendingAtFailure>>

\* the runner's state when multi_runner is entered and the sitemaps answer sm
RunnerAt(sm) ==
    /\ sitemaps = sm
    /\ links = <<>>
    /\ threads = <<>>
    /\ requests = <<>>
    /\ rpc = "start"
    /\ product_data = <<>>
    /\ json_file = <<>>
    /\ json_writes = 0
    /\ csv_file = <<>>
    /\ csv_writes = 0
    /\ rret = <<>>
    /\ rexc = "none"

\* line 188: links = get_links(); an exception of get_links leaves multi_runner
RunnerStart ==
    /\ program = "trendyol_sitemap"
    /\ rpc = "start"
    /\ IF get_links(sitemaps).raised
       THEN /\ rpc' = "raised"
            /\ rexc' = "ParseError"
            /\ UNCHANGED links
       ELSE /\ rpc' = "submit"
            /\ links' = get_links(sitemaps).value
            /\ UNCHANGED rexc
    /\ UNCHANGED <<program, harness_vars, scraper_vars, sitemaps, threads, requests, product_data,
                   json_file, json_writes, csv_file, csv_writes, rret>>

\* lines 190-197: one helper task is submitted per link
RunnerSubmit ==
    /\ rpc = "submit"
    /\ threads' = [i \in 1..Len(links) |-> PendingFuture]
    /\ requests' = [i \in 1..Len(links) |-> <<>>]
    /\ rpc' = "pool"
    /\ UNCHANGED <<program, harness_vars, scraper_vars, sitemaps, links, product_data, json_file,
                   json_writes, csv_file, csv_writes, rret, rexc>>

\* lines 181-186: a pool thread runs helper(link) to its end
RunnerHelper(i) ==
    /\ rpc = "pool"
    /\ threads[i].state = "pending"
    /\ \E http \in HttpAnswers :
        /\ threads' = [threads EXCEPT ![i] =
                      [state |-> IF helper(links[i], http).raised THEN "failed" ELSE "done",
                       value |-> helper(links[i], http).value]]
        /\ requests' = [requests EXCEPT ![i] =
                          IF helper(links[i], http).gets = 1 THEN <<http>> ELSE <<>>]
    /\ UNCHANGED <<program, harness_vars, scraper_vars, sitemaps, links, rpc, product_data, json_file,
                   json_writes, csv_file, csv_writes, rret, rexc>>

\* line 199: thread.result() of every future in order; the first failed one
\* re-raises inside the finally block, and the with statement lets the
\* exception out once every task has ended
RunnerCollect ==
    /\ rpc = "pool"
    /\ \A i \in DOMAIN threads : threads[i].state # "pending"
    /\ IF \E i \in DOMAIN threads : threads[i].state = "failed"
       THEN /\ rpc' = "raised"
            /\ rexc' = "helper exception"
            /\ UNCHANGED product_data
       ELSE /\ rpc' = "write"
            /\ product_data' = [i \in DOMAIN threads |-> threads[i].value]
            /\ UNCHANGED rexc
    /\ UNCHANGED <<program, harness_vars, scraper_vars, sitemaps, links, threads, requests, json_file,
                   json_writes, csv_file, csv_writes, rret>>

\* lines 200-201: json.dump(product_data, f)
RunnerWrite ==
    /\ rpc = "write"
    /\ json_file' = product_data
    /\ json_writes' = json_writes + 1
    /\ rpc' = "aggregate"
    /\ UNCHANGED <<program, harness_vars, scraper_vars, sitemaps, links, threads, requests, product_data,
                   csv_file, csv_writes, rret, rexc>>

\* lines 202-206: aggregate_product_data writes the CSV, then return product_data
RunnerAggregate ==
    /\ rpc = "aggregate"
    /\ csv_file' = aggregate_product_data(product_data)
    /\ csv_writes' = csv_writes + 1
    /\ rret' = product_data
    /\ rpc' = "returned"
    /\ UNCHANGED <<program, harness_vars, scraper_vars, sitemaps, links, threads, requests, product_data,
                   json_file, json_writes, rexc>>

\* required_product_data is about to be called on raw
NormalizeAt(raw) ==
    /\ response_dict = raw
    /\ required_data = EmptyDict
    /\ norm_log = {}
    /\ npc = "call"

\* lines 90-116: one call of required_product_data
Normalize ==
    /\ program = "required_product_data"
    /\ npc = "call"
    /\ required_data' = required_product_data(response_dict, NormLink).data
    /\ norm_log' = IF required_product_data(response_dict, NormLink).error
                   THEN {"error occured while parsing the required data"} ELSE {}
    /\ npc' = "returned"
    /\ UNCHANGED <<program, scraper_vars, runner_vars, discovery_vars, response_dict>>

\* the sitemap answer in the runs in which extract_urls is not called
NoPage == [status |-> 404, wellformed |-> TRUE, locs |-> <<>>]

\* extract_urls is about to be called and the sitemap will answer page
DiscoveryAt(page) ==
    /\ eu_page = page
    /\ eu_links = <<>>
    /\ eu_num_of_links = 0
    /\ eu_child = 1
    /\ eu_pc = "start"
    /\ eu_exc = "none"

\* lines 37-44: helper fetches the sitemap and raises on a non-200 status;
\* future.result() re-raises that, ET.fromstring raises on a malformed
\* document, and nothing in extract_urls catches either
ExtractFetch ==
    /\ program = "extract_urls"
    /\ eu_pc = "start"
    /\ IF eu_page.status # 200
       THEN eu_pc' = "raised" /\ eu_exc' = "Exception: Error getting sitemap"
       ELSE IF ~eu_page.wellformed
       THEN eu_pc' = "raised" /\ eu_exc' = "ParseError"
       ELSE eu_pc' = "children" /\ eu_exc' = eu_exc
    /\ UNCHANGED <<program, scraper_vars, runner_vars, normalize_vars, eu_page, eu_links,
                   eu_num_of_links, eu_child>>

\* lines 45-50: one child of root: its link is put, the counter incremented,
\* and the queue returned once the cap is reached
ExtractChild ==
    /\ eu_pc = "children"
    /\ eu_child <= Len(eu_page.locs)
    /\ eu_links' = Append(eu_links, eu_page.locs[eu_child])
    /\ eu_num_of_links' = eu_num_of_links + 1
    /\ eu_child' = eu_child + 1
    /\ eu_pc' = IF cap_reached(eu_num_of_links + 1) THEN "returned" ELSE "children"
    /\ UNCHANGED <<program, scraper_vars, runner_vars, normalize_vars, eu_page, eu_exc>>

\* lines 51-52: the loops are over, the queue is returned
ExtractReturn ==
    /\ eu_pc = "children"
    /\ eu_child > Len(eu_page.locs)
    /\ eu_pc' = "returned"
    /\ UNCHANGED <<program, scraper_vars, runner_vars, normalize_vars, eu_page, eu_links,
                   eu_num_of_links, eu_child, eu_exc>>

\* The queues multi_threaded_scraper is started on.  The code treats a URL as
\* an opaque key, so a run on a queue that starts with "u2" is the run on the
\* queue with the two names exchanged: the queues starting with "u1" stand for
\* all of them.
InitialQueues == {q \in SeqsUpTo(URLS, MaxLinks) : q = <<>> \/ q[1] = "u1"}

InitScraper ==
    /\ program = "selenium_scraper"
    /\ \E q \in InitialQueues : ScraperAt(q)
    /\ RunnerAt(<<>>)
    /\ NormalizeAt(EmptyDict)
    /\ DiscoveryAt(NoPage)

InitRunner ==
    /\ program = "trendyol_sitemap"
    /\ \E sm \in [1..NumSitemaps -> SitemapAnswers] : RunnerAt(sm)
    /\ ScraperAt(<<>>)
    /\ NormalizeAt(EmptyDict)
    /\ DiscoveryAt(NoPage)

InitDiscovery ==
    /\ program = "extract_urls"
    /\ \E page \in IndexPages : DiscoveryAt(page)
    /\ ScraperAt(<<>>)
    /\ RunnerAt(<<>>)
    /\ NormalizeAt(EmptyDict)

InitNormalize ==
    /\ program = "required_product_data"
    /\ \E raw \in RawRecords : NormalizeAt(raw)
    /\ ScraperAt(<<>>)
    /\ RunnerAt(<<>>)
    /\ DiscoveryAt(NoPage)

Init == InitScraper \/ InitRunner \/ InitDiscovery

NextScraper ==
    \/ Start
    \/ \E w \in Threads : WorkerCheck(w)
    \/ \E w \in Threads : WorkerGet(w)
    \/ \E w \in Threads : WorkerScrape(w)
    \/ \E w \in Threads : Collect(w)
    \/ Store
    \/ Close
    \/ Telemetry

NextRunner ==
    \/ RunnerStart
    \/ RunnerSubmit
    \/ \E i \in DOMAIN threads : RunnerHelper(i)
    \/ RunnerCollect
    \/ RunnerWrite
    \/ RunnerAggregate

NextDiscovery ==
    \/ ExtractFetch
    \/ ExtractChild
    \/ ExtractReturn

Next == NextScraper \/ NextRunner \/ NextDiscovery

\* Any of the programs, every schedule, every environment.
Spec == Init /\ [][Next]_vars

\* required_product_data applied to every raw record of RawRecords
NextNormalize == Normalize

NormalizeSpec == InitNormalize /\ [][NextNormalize]_vars

\* multi_threaded_scraper under a fair scheduler: every thread that can take a
\* step eventually takes one, and every scrape and quit call ends.
WorkerStep(w) == WorkerCheck(w) \/ WorkerGet(w) \/ WorkerScrape(w)
MainStep == Start \/ (\E w \in Threads : Collect(w)) \/ Store \/ Close \/ Telemetry

FairSpec ==
    /\ InitScraper
    /\ [][NextScraper]_vars
    /\ \A w \in Threads : WF_vars(WorkerStep(w))
    /\ WF_vars(MainStep)

\* ------------------------------------------------------------------ phases
\* the as_completed loop is over: the main thread is in the finally block or past it
Drained == pc \in {"close", "telemetry", "returned", "raised"}
\* multi_threaded_scraper has ended, by return or by an exception
Finished == pc \in {"returned", "raised"}
\* multi_runner has ended
RunnerFinished == rpc \in {"returned", "raised"}
\* the items whose scrape returned a record
Scraped == {i \in Items : outcome[i] \in {"landing", "product"}}
\* the workers holding item i
Holders(i) == {w \in Threads : cur[w] = i}
\* the queue positions holding item i
Slots(i) == {k \in DOMAIN url_queue : url_queue[k] = i}

\* ------------------------------------------------------------------ claims

\* C1 as stated: once multi_threaded_scraper has returned, the aggregate holds an
\* entry keyed by the URL of every item of the input queue, failed items included.
C1_EveryItemHasEntry ==
    pc = "returned" => \A i \in Items : url_of(i) \in DOMAIN retval

\* C1 as the code has it: once multi_threaded_scraper has returned, the keys of
\* the aggregate are exactly the URLs for which a scrape returned a record (a
\* product or the unavailable record), each entry is the record of its own URL,
\* and a URL whose scrapes all raised has no entry.
C1_EntryIffScrapeReturned ==
    pc = "returned" =>
        /\ DOMAIN retval = {url_of(i) : i \in Scraped}
        /\ \A u \in DOMAIN retval : retval[u].link = u

\* a returned run in which one item failed and another was scraped
C1_Witness ==
    /\ pc = "returned"
    /\ \E i, j \in Items : outcome[i] = "error" /\ outcome[j] = "product"
    /\ DOMAIN retval # {}

\* C2: every queued item is dequeued at most once and by at most one worker, and
\* is in exactly one of the states Pending (in the queue, once, never taken),
\* InFlight (held by one worker) and Completed/Failed (scraped, out of the queue
\* for good); two workers never hold the same item.
C2_DequeuedAtMostOnce ==
    \A i \in Items :
        /\ takes[i] <= 1
        /\ Cardinality(Slots(i)) + Cardinality(Holders(i)) <= 1
        /\ Slots(i) # {} => takes[i] = 0 /\ outcome[i] = "none"
        /\ Holders(i) # {} => takes[i] = 1 /\ outcome[i] = "none"
        /\ (Slots(i) = {} /\ Holders(i) = {}) => takes[i] = 1 /\ outcome[i] # "none"

\* both workers passed the empty() test on a queue of two and each holds an item
C2_Witness ==
    \E w1, w2 \in Threads :
        /\ w1 # w2
        /\ wpc[w1] = "scrape" /\ wpc[w2] = "scrape"
        /\ cur[w1] # cur[w2]

\* C3 as stated: every item that was pending when some scrape raised ends up
\* recorded in the aggregate.
C3_PendingAtFailureAllRecorded ==
    Drained => \A i \in pendingAtFailure : url_of(i) \in DOMAIN all_results

\* C3 as the code has it: a scrape that raises ends no worker task (a task ends
\* only on an empty queue), and every item that was pending at that moment has
\* been dequeued and scraped by the time the pool is drained, and is in the
\* aggregate unless its own scrape raised.
C3_FailureIsolated ==
    /\ \A w \in Threads : wpc[w] = "done" => url_queue = <<>>
    /\ Drained =>
         \A i \in pendingAtFailure :
            /\ takes[i] = 1
            /\ outcome[i] # "none"
            /\ outcome[i] # "error" => url_of(i) \in DOMAIN all_results

\* an item that was pending when another item's scrape raised is in the aggregate
C3_Witness ==
    /\ Drained
    /\ \E i \in pendingAtFailure : outcome[i] = "product" /\ url_of(i) \in DOMAIN all_results

\* C4 as stated: when a helper task ended with an exception, multi_runner still
\* returns, with one entry per link, and has written the JSON output.
C4_HelperFaultContained ==
    (RunnerFinished /\ \E i \in DOMAIN threads : threads[i].state = "failed") =>
        /\ rpc = "returned"
        /\ Len(rret) = Len(links)
        /\ json_writes = 1

\* C5: under fair scheduling every worker task ends and multi_threaded_scraper
\* ends; a worker task has ended only on an empty queue, and the pool is drained
\* only when the queue is empty, no item is in flight and every item was scraped.
C5_PoolTerminates ==
    /\ <>(\A w \in Threads : wpc[w] = "done")
    /\ <>Finished
    /\ [](\A w \in Threads : wpc[w] = "done" => url_queue = <<>> /\ cur[w] = 0)
    /\ [](Drained => /\ url_queue = <<>>
                     /\ \A w \in Threads : wpc[w] = "done" /\ cur[w] = 0
                     /\ \A i \in Items : outcome[i] # "none")

\* the run of a full queue has ended and every item of it was scraped
C5_Witness ==
    /\ Finished
    /\ Len(input) >= 2
    /\ \A w \in Threads : wpc[w] = "done"
    /\ \A i \in Items : outcome[i] # "none"

\* C6 as stated: when multi_threaded_scraper has ended, by return or by an
\* exception, close() was called on every Worker handle.
C6_AllHandlesClosed ==
    Finished => closed = Threads

\* C7: the file is written at most once, only when every worker task has ended
\* and its future was merged; it then holds every URL a worker recorded, and it
\* is the mapping multi_threaded_scraper returns.
C7_WrittenOnceAfterDrain ==
    /\ writes <= 1
    /\ writes = 1 =>
         /\ Drained
         /\ \A w \in Threads : wpc[w] = "done" /\ w \in merged
         /\ \A w \in Threads : \A u \in DOMAIN results[w] :
               u \in DOMAIN file /\ file[u].link = u
    /\ (pc = "returned" /\ writes = 1) => file = retval

\* a returned run that wrote a file holding what two different workers recorded
C7_Witness ==
    /\ pc = "returned"
    /\ writes = 1
    /\ \E w1, w2 \in Threads :
         /\ w1 # w2
         /\ DOMAIN results[w1] # {}
         /\ DOMAIN results[w2] # {}
         /\ DOMAIN results[w1] # DOMAIN results[w2]

\* C8 as stated, for the runs in which every close() succeeded: when the run has
\* ended with an empty aggregate, it has logged the condition, written nothing
\* and returned the empty aggregate.
C8_EmptyAggregateReturns ==
    (Finished /\ DOMAIN all_results = {} /\ exc # "WebDriverException") =>
        /\ "No data scraped" \in log
        /\ writes = 0
        /\ pc = "returned"
        /\ retval = EmptyDict

\* C9 as stated: a returned run on a non-empty input whose items all failed has
\* written the output file (multi_threaded_scraper), and a returned multi_runner
\* has written its JSON file.
C9_AllFailedStillWritten ==
    /\ (pc = "returned" /\ Items # {} /\ \A i \in Items : outcome[i] = "error")
          => writes >= 1
    /\ rpc = "returned" => json_writes >= 1

\* C9 as the code has it: a returned multi_threaded_scraper has written its file
\* exactly when its aggregate is non-empty, so not when every item failed; a
\* returned multi_runner has written its JSON file and its CSV file once each,
\* the JSON file holding one entry per link.
C9_ArtifactIffAggregateNonEmpty ==
    /\ pc = "returned" => (writes = 1 <=> DOMAIN retval # {})
    /\ pc = "returned" => (writes = 0 <=> \A i \in Items : outcome[i] = "error")
    /\ rpc = "returned" =>
         /\ json_writes = 1
         /\ csv_writes = 1
         /\ Len(json_file) = Len(links)

\* a returned run on a non-empty input whose items all failed: nothing written
C9_Witness ==
    /\ pc = "returned"
    /\ Items # {}
    /\ \A i \in Items : outcome[i] = "error"
    /\ writes = 0

\* C10 as stated: a run with no work items ends with an exception: an empty
\* queue in multi_threaded_scraper, no links from get_links in multi_runner.
C10_NoItemsIsFatal ==
    /\ (program = "selenium_scraper" /\ Finished /\ Len(input) = 0) => pc = "raised"
    /\ (program = "trendyol_sitemap" /\ RunnerFinished /\ rexc # "ParseError"
          /\ Len(links) = 0) => rpc = "raised"

\* The outcome class of link i in a finished pool, from what the backend
\* answered: the claim's classes are "NoIdentifier", <<"BackendError", status>>,
\* "EmptyResponse" and "FullRecord"; a failed connection and a JSON object
\* without "name" are outside them.
OutcomeClass(i) ==
    IF requests[i] = <<>> THEN <<"NoIdentifier">>
    ELSE IF requests[i][1].error THEN <<"ConnectionError">>
    ELSE IF requests[i][1].status # 200 THEN <<"BackendError", requests[i][1].status>>
    ELSE IF requests[i][1].body \in {"", "null"} THEN <<"EmptyResponse">>
    ELSE IF requests[i][1].body = "product" THEN <<"FullRecord">>
    ELSE <<"Other">>

\* every helper task has run and met one of the outcomes C11 speaks of
ClaimedOutcomesOnly ==
    /\ program = "trendyol_sitemap"
    /\ rpc \in {"write", "aggregate", "returned"} \/ (rpc = "raised" /\ rexc = "helper exception")
    /\ \A i \in DOMAIN links :
          OutcomeClass(i)[1] \in {"NoIdentifier", "BackendError", "EmptyResponse", "FullRecord"}

\* C11 (as stated): when every link's backend outcome is a full body, a non-200
\* status or a 200 with an empty or null body, multi_runner returns one entry
\* per link, and two entries that are equal belong to the same outcome class
\* (same status code for backend errors), so that an entry identifies its class.
C11_EntryIdentifiesOutcome ==
    (ClaimedOutcomesOnly /\ RunnerFinished) =>
        /\ rpc = "returned"
        /\ Len(rret) = Len(links)
        /\ \A i, j \in DOMAIN rret : rret[i] = rret[j] => OutcomeClass(i) = OutcomeClass(j)

\* the raw record's inStock flag is false or absent
NotInStock == "inStock" \notin DOMAIN response_dict \/ response_dict["inStock"] = "False"

\* C12 (as stated): for a raw record whose inStock flag is false or absent the
\* record returned by required_product_data has none of the keys barcode, price
\* and size, whatever allVariants and attributes hold.
C12_NoStockFieldsWhenNotInStock ==
    (npc = "returned" /\ NotInStock) =>
        DOMAIN required_data \cap {"barcode", "price", "size"} = {}

\* The accesses of required_product_data that raise on response_dict: a null
\* brand, a missing images or name key, a first variant without barcode when
\* the stock fields are read, an attribute entry without value.
FailingFields ==
    {f \in {"brand"} : "brand" \in DOMAIN response_dict /\ response_dict["brand"].t # "dict"}
    \cup {f \in {"images", "name"} : f \notin DOMAIN response_dict}
    \cup {f \in {"barcode"} :
            /\ stock_gate(IF "inStock" \in DOMAIN response_dict
                          THEN response_dict["inStock"] ELSE None, response_dict)
            /\ "barcode" \notin DOMAIN response_dict["allVariants"][1]}
    \cup {f \in {"attributes"} :
            /\ "attributes" \in DOMAIN response_dict
            /\ \E n \in DOMAIN response_dict["attributes"] :
                  /\ response_dict["attributes"][n].key # "description"
                  /\ "value" \notin DOMAIN response_dict["attributes"][n]}

\* C13 (as stated): when exactly one field of the raw record is absent or
\* raises on access, every other field the raw record has appears in the
\* returned record: images, name, the brand's two fields, in_stock, and every
\* attribute entry that has a value and is not the description.
C13_OnlyFailingFieldOmitted ==
    (npc = "returned" /\ Cardinality(FailingFields) = 1) =>
        /\ \A f \in {"images", "name"} : f \in DOMAIN response_dict => f \in DOMAIN required_data
        /\ "brand" \notin FailingFields => {"description", "brand_name"} \subseteq DOMAIN required_data
        /\ "inStock" \in DOMAIN response_dict => "in_stock" \in DOMAIN required_data
        /\ "attributes" \in DOMAIN response_dict =>
              \A n \in DOMAIN response_dict["attributes"] :
                 ( /\ response_dict["attributes"][n].key # "description"
                   /\ "value" \in DOMAIN response_dict["attributes"][n] )
                 => response_dict["attributes"][n].key \in DOMAIN required_data

\* C14: for a raw record without the attributes key, required_product_data
\* returns exactly the record it returns for the same raw record with an empty
\* attributes list, and the missing key raises nothing: the except clause logs
\* only if it also logs for the empty list.
C14_MissingAttributesAsEmpty ==
    (npc = "returned" /\ "attributes" \notin DOMAIN response_dict) =>
        LET same == required_product_data(dict_set(response_dict, "attributes", <<>>), NormLink)
        IN  /\ required_data = same.data
            /\ (norm_log # {}) <=> same.error

\* a complete in-stock record without the attributes key was normalised
C14_Witness ==
    /\ npc = "returned"
    /\ "attributes" \notin DOMAIN response_dict
    /\ norm_log = {}
    /\ {"url", "description", "images", "name", "brand_name", "in_stock",
        "barcode", "price", "size"} = DOMAIN required_data

\* id is the digit string that follows link's first 'p-' that has a digit after it
FollowsFirstMarker(link, id) ==
    \E k \in 1..Len(link) :
        /\ k + 1 + Len(id) <= Len(link)
        /\ link[k] = "p" /\ link[k + 1] = "-"
        /\ Len(id) >= 1
        /\ \A d \in 1..Len(id) : IsDigit(id[d]) /\ link[k + 1 + d] = id[d]
        /\ k + 2 + Len(id) <= Len(link) => ~IsDigit(link[k + 2 + Len(id)])
        /\ \A e \in 1..(k - 1) :
              ~(e + 2 <= Len(link) /\ link[e] = "p" /\ link[e + 1] = "-" /\ IsDigit(link[e + 2]))

\* link has no 'p-' that is followed by a digit
NoMarker(link) ==
    \A k \in 1..Len(link) :
        ~(k + 2 <= Len(link) /\ link[k] = "p" /\ link[k + 1] = "-" /\ IsDigit(link[k + 2]))

\* C15: for every link whose helper task has run, the product_id is the digit
\* string after the first 'p-' followed by digits ('123456' for
\* 'https://site/x/p-123456'), or no identifier when the link has none; without
\* an identifier no GET was issued and the response is None, otherwise
\* exactly one GET was issued.
C15_IdentifierAndSingleGet ==
    \A i \in DOMAIN threads :
        threads[i].state # "pending" =>
            LET id == threads[i].value.product_id
            IN  /\ IF id = NoId THEN NoMarker(links[i]) ELSE FollowsFirstMarker(links[i], id)
                /\ links[i] = LinkExample => id = <<"1", "2", "3", "4", "5", "6">>
                /\ Len(requests[i]) = (IF id = NoId THEN 0 ELSE 1)
                /\ id = NoId => threads[i].state = "done" /\ threads[i].value.response = None

\* a link with two identifiers and a link with none have both been processed
C15_Witness ==
    /\ program = "trendyol_sitemap"
    /\ links = <<LinkLate, LinkCategory>>
    /\ Len(threads) = 2
    /\ threads[1].state = "done" /\ threads[1].value.product_id = <<"7">>
    /\ Len(requests[1]) = 1
    /\ threads[2].state = "done" /\ requests[2] = <<>>

\* the sitemap n of get_links answered 200 with a well-formed document
GoodSitemap(n) == sitemaps[n].status = 200 /\ sitemaps[n].wellformed

\* C16 (as stated): once get_links has been called, it has returned, and the
\* links of every sitemap that answered 200 with a well-formed document are
\* among the links returned, whatever the other sitemaps answered; and
\* extract_urls does not end with an exception on a non-200 answer or a
\* malformed document.
C16_BadIndexPageSkipped ==
    /\ (program = "trendyol_sitemap" /\ rpc # "start") =>
          /\ rexc # "ParseError"
          /\ \A n \in DOMAIN sitemaps :
                GoodSitemap(n) => Range(sitemaps[n].locs) \subseteq Range(links)
    /\ program = "extract_urls" => eu_pc # "raised"

Min(a, b) == IF a <= b THEN a ELSE b

\* C17: extract_urls' queue never holds more than 1000 links; the loop goes on
\* only below the cap; and the queue returned holds the first
\* min(1000, number of links of the page) links of the page in document order.
C17_CapAndDocumentOrder ==
    program = "extract_urls" =>
        /\ Len(eu_links) <= 1000
        /\ eu_pc = "children" => Len(eu_links) < 1000
        /\ eu_pc = "returned" =>
              /\ Len(eu_links) = Min(1000, Len(eu_page.locs))
              /\ \A k \in DOMAIN eu_links : eu_links[k] = eu_page.locs[k]

\* a sitemap with more than 1000 links was cut at the cap
C17_Witness ==
    /\ program = "extract_urls"
    /\ eu_pc = "returned"
    /\ Len(eu_page.locs) > 1000
    /\ Len(eu_links) = 1000

\* the record of an unavailable item: the link and nothing else
Unavailable(url) ==
    [link |-> url, brand_and_title |-> None, price |-> None,
     attributes |-> None, description |-> None, images |-> None]

\* C18: for an item whose page had the landing-page title, scrape performed no
\* field lookup and the worker that scraped it recorded an entry under the
\* item's URL; once the pool is drained the aggregate has an entry under that
\* URL, and it is the record with the link set and every other field None
\* unless the same URL was also queued as another item that met another page.
C18_LandingPageSentinel ==
    \A i \in Items :
        outcome[i] = "landing" =>
            /\ lookups[i] = 0
            /\ \E w \in Threads : url_of(i) \in DOMAIN results[w]
            /\ Drained =>
                  /\ url_of(i) \in DOMAIN all_results
                  /\ (\A j \in Items : url_of(j) = url_of(i) => outcome[j] = "landing")
                        => all_results[url_of(i)] = Unavailable(url_of(i))

\* the run returned an aggregate that holds an unavailable item and a product
C18_Witness ==
    /\ pc = "returned"
    /\ Len(input) = 2
    /\ outcome = <<"landing", "product">>
    /\ retval[url_of(1)] = Unavailable(url_of(1))
    /\ retval[url_of(2)] # Unavailable(url_of(2))

\* the work items are distinct
DistinctItems == Cardinality(Range(input)) = Len(input)

\* the item queued with URL u, for distinct items
ItemOf(u) == CHOOSE i \in Items : url_of(i) = u

\* C19: what the two programs return is a function of the input and of what
\* the backend answered for each item, whichever worker took the item and in
\* whatever order tasks completed: multi_threaded_scraper, for distinct items,
\* returns the mapping from each URL whose scrape returned to the record of
\* the page that URL met; multi_runner returns one entry per link, in the
\* order of the links, holding the link, its identifier and the response of
\* the answer given for that link.
C19_AggregationDeterministic ==
    /\ (program = "selenium_scraper" /\ pc = "returned" /\ DistinctItems) =>
          retval = [u \in {url_of(i) : i \in Scraped} |-> product_details(u, outcome[ItemOf(u)])]
    /\ (program = "trendyol_sitemap" /\ rpc = "returned") =>
          /\ Len(rret) = Len(links)
          /\ \A i \in DOMAIN links :
                /\ rret[i].link = links[i]
                /\ rret[i].product_id = get_product_id(links[i])
                /\ rret[i].response =
                      (IF requests[i] = <<>> THEN None
                       ELSE grab_product_data(rret[i].product_id, requests[i][1]).value)

\* two workers each scraped one of two distinct items and the run returned
C19_Witness ==
    /\ pc = "returned"
    /\ Len(input) = 2
    /\ DistinctItems
    /\ \A w \in {1, 2} : DOMAIN results[w] # {}
    /\ DOMAIN retval = Range(input)

\* the tasks inside scrape on handle h
InProgress(h) == {w \in Threads : wpc[w] = "scrape" /\ handle_of(w) = h}

\* C20: at most one task ever called scrape on a Worker handle, at most one
\* scrape is in progress on a handle, and a handle that was closed is used by
\* no task that has not finished.
C20_HandleOwnedByOneTask ==
    \A h \in Threads :
        /\ Cardinality(users[h]) <= 1
        /\ Cardinality(InProgress(h)) <= 1
        /\ h \in closed =>
              \A w \in Threads : (w \in users[h] \/ handle_of(w) = h) => wpc[w] = "done"

\* both handles were used, each by one task, and both were closed
C20_Witness ==
    /\ closed = Threads
    /\ \A h \in Threads : Cardinality(users[h]) = 1
    /\ users[1] # users[2]

\* C21 (as stated): the url field of the record returned by
\* required_product_data is the link it was called with, whatever keys the
\* raw record's attributes carry.
C21_UrlIsTheLink ==
    npc = "returned" => required_data["url"] = NormLink

\* the tasks whose get_nowait found the queue empty after empty() said it was not
Raced == {w \in Threads : raced[w] # <<>>}

\* C22: a task that passed the empty() test and then got queue.Empty from
\* get_nowait has ended by its return: it is not waiting for an item, it
\* returned exactly the results it had recorded by then, and once the main
\* thread has merged its future every URL it recorded is in the aggregate,
\* with the record that it or another task recorded for that URL.
C22_LostRaceExitsNormally ==
    \A w \in Raced :
        /\ wpc[w] = "done"
        /\ results[w] = raced[w][1]
        /\ w \in merged =>
              \A u \in DOMAIN results[w] :
                 /\ u \in DOMAIN all_results
                 /\ \E v \in Threads : u \in DOMAIN results[v] /\ all_results[u] = results[v][u]

\* a task that had recorded a result lost the race for the last item, and the
\* run returned with that result in the aggregate
C22_Witness ==
    /\ pc = "returned"
    /\ \E w \in Raced :
          /\ DOMAIN results[w] # {}
          /\ \A u \in DOMAIN results[w] : u \in DOMAIN retval
          /\ \E v \in Threads \ {w} : DOMAIN results[v] # {}

====
